---- MODULE Spec2Model ----
(***************************************************************************)
(* A model of scripts/db/validate_freeze_migration.py: the .env loader     *)
(* (load_env), the RPC caller (call_rpc) and the report driver (main).     *)
(*                                                                         *)
(* Text is a sequence of symbols.  A symbol is one character (" ", "#",    *)
(* "=", "/", a letter, the line break) or an identifier of the script      *)
(* taken as one symbol ("SUPABASE_URL", a path segment of the endpoint).   *)
(***************************************************************************)
EXTENDS Integers, Sequences, FiniteSets, TLC

VARIABLES
    exists,     \* Path('.env').exists()
    text,       \* Path('.env').read_text()
    caller,     \* who called load_env: "main", or "direct" for a call of load_env alone
    pc,         \* the position of the run
    lines,      \* load_env: path.read_text().splitlines()
    idx,        \* load_env: how many lines the for loop has consumed
    env,        \* load_env: the mapping being built, then main's env
    url,        \* main: env.get('SUPABASE_URL')
    anon_key,   \* main: env.get('SUPABASE_ANON_KEY')
    result,     \* main: (status, body) of Step 1, <<>> while unassigned
    result2,    \* main: (status2, body2) of Step 2, <<>> while unassigned
    out,        \* standard output: the printed lines, in order
    calls,      \* how many times call_rpc has been entered
    net,        \* the network: every request issued, with the reply it got
    uncaught    \* the exception that left main, NoException while there is none

vars == <<exists, text, caller, pc, lines, idx, env, url, anon_key,
          result, result2, out, calls, net, uncaught>>

(***************************************************************************)
(* Bounds of the model.                                                    *)
(***************************************************************************)
\* Longest generated .env text given to load_env alone, in characters.
MaxTextLen == 6
\* Longest SUPABASE_URL value of a generated configuration.
MaxUrlLen == 2
\* Longest response body the server sends, in symbols.
MaxBodyLen == 2
\* How many symbols of a body main prints: body[:600], scaled to the bodies above.
PrefixLen == 1

(***************************************************************************)
(* Python's str operations, on sequences of symbols.                       *)
(***************************************************************************)
NL == "\n"

IsSpace(c) == c \in {" ", NL}

\* The sequences over alphabet A of length at most n.
StringsUpTo(A, n) == UNION {[1..k -> A] : k \in 0..n}

\* The least i with s[i] = c, or 0 when c does not occur in s.
find(s, c) ==
    IF \E i \in 1..Len(s) : s[i] = c
    THEN CHOOSE i \in 1..Len(s) : s[i] = c /\ \A j \in 1..(i - 1) : s[j] # c
    ELSE 0

\* c in s
contains_char(s, c) == find(s, c) # 0

\* s.startswith(c)
startswith(s, c) == Len(s) > 0 /\ s[1] = c

RECURSIVE lstrip(_)
lstrip(s) == IF s # <<>> /\ IsSpace(Head(s)) THEN lstrip(Tail(s)) ELSE s

RECURSIVE rstrip(_)
rstrip(s) ==
    IF s # <<>> /\ IsSpace(s[Len(s)]) THEN rstrip(SubSeq(s, 1, Len(s) - 1)) ELSE s

\* s.strip()
strip(s) == rstrip(lstrip(s))

\* s.split('=', 1) for an s that holds '=': <<before the first '=', after it>>.
split_eq_Last(s) ==
    LET n == CHOOSE i \in 1..Len(s) : s[i] = "=" /\ \A j \in (i + 1)..Len(s) : s[j] # "="
    IN  <<SubSeq(s, 1, n - 1), SubSeq(s, n + 1, Len(s))>>

split_eq(s) ==
    LET n == find(s, "=")
    IN  <<SubSeq(s, 1, n - 1), SubSeq(s, n + 1, Len(s))>>

\* text.splitlines(): the lines of text without their line breaks; a final line
\* break opens no further line.
RECURSIVE splitlines(_)
splitlines(t) ==
    IF t = <<>> THEN <<>>
    ELSE LET n == find(t, NL)
         IN  IF n = 0 THEN <<t>>
             ELSE <<SubSeq(t, 1, n - 1)>> \o splitlines(SubSeq(t, n + 1, Len(t)))

(***************************************************************************)
(* load_env                                                                *)
(***************************************************************************)
\* env = {}
EmptyEnv == <<>>

\* env[k] = v, keeping the first value of a key already present.
SetItem_FirstWins(m, k, v) ==
    [x \in DOMAIN m \cup {k} |-> IF x \in DOMAIN m THEN m[x] ELSE v]

\* env[k] = v
SetItem(m, k, v) ==
    [x \in DOMAIN m \cup {k} |-> IF x = k THEN v ELSE m[x]]

\* One pass of the for loop's body over `line`: the mapping after it.
LoopBody(m, line) ==
    LET s == strip(line)
    IN  IF s = <<>> \/ startswith(s, "#") \/ ~contains_char(s, "=")
        THEN m
        ELSE LET kv == split_eq(s) IN SetItem(m, strip(kv[1]), strip(kv[2]))

\* load_env is entered: env = {} and the file is read and split into lines.
LoadRead ==
    /\ pc = "load_env"
    /\ env' = EmptyEnv
    /\ lines' = splitlines(text)
    /\ idx' = 0
    /\ pc' = "load_loop"
    /\ UNCHANGED <<exists, text, caller, url, anon_key, result, result2, out, calls, net, uncaught>>

\* The for loop takes the next line.
LoadLine ==
    /\ pc = "load_loop"
    /\ idx < Len(lines)
    /\ env' = LoopBody(env, lines[idx + 1])
    /\ idx' = idx + 1
    /\ UNCHANGED <<exists, text, caller, pc, lines, url, anon_key, result, result2, out, calls, net, uncaught>>

\* return env
LoadReturn ==
    /\ pc = "load_loop"
    /\ idx = Len(lines)
    /\ pc' = IF caller = "main" THEN "config" ELSE "returned"
    /\ UNCHANGED <<exists, text, caller, lines, idx, env, url, anon_key, result, result2, out, calls, net, uncaught>>

\* The characters of the generated .env texts.
EnvAlphabet == {" ", "#", "=", "a", NL}

EnvTexts == StringsUpTo(EnvAlphabet, MaxTextLen)

None == <<"None">>
NoException == "NoException"

(***************************************************************************)
(* call_rpc                                                                *)
(***************************************************************************)
\* s.rstrip('/') that removes one trailing slash only.
rstrip_slash_Once(s) ==
    IF s # <<>> /\ s[Len(s)] = "/" THEN SubSeq(s, 1, Len(s) - 1) ELSE s

\* s.rstrip('/')
RECURSIVE rstrip_slash(_)
rstrip_slash(s) ==
    IF s # <<>> /\ s[Len(s)] = "/" THEN rstrip_slash(SubSeq(s, 1, Len(s) - 1)) ELSE s

\* '/rest/v1/rpc/record_test_and_sync_stats'
RPC_PATH == <<"/", "rest", "/", "v1", "/", "rpc", "/", "record_test_and_sync_stats">>

\* endpoint = url.rstrip('/') + '/rest/v1/rpc/record_test_and_sync_stats'
Endpoint(u) == rstrip_slash(u) \o RPC_PATH

\* The two payloads main sends.
PAYLOAD1 ==
    [p_test_count |-> 1, p_correct_count |-> 1, p_points |-> 1,
     p_timezone_offset_hours |-> 8, p_client_date |-> "2026-02-14",
     p_expected_version |-> 0]

PAYLOAD2 ==
    [p_test_date |-> "2026-02-13", p_test_count |-> 1, p_correct_count |-> 1,
     p_points |-> 1, p_timezone_offset_hours |-> 8, p_client_date |-> "2026-02-13",
     p_expected_version |-> 0]

\* urlopen(req, timeout=20)
TIMEOUT == 20

\* The statuses urlopen returns a response for, and those it raises HTTPError for.
OkStatuses == {200}
ErrorStatuses == {400, 500}

\* What urlopen raises when no HTTP exchange completes.
TransportErrors == {"URLError: connection refused", "URLError: name resolution failed",
                    "timeout: timed out"}

\* The two phrases main looks for start with the same character.
\*   "C" \o "f" : 'Could not find the function public.record_test_and_sync_stats'
\*   "C" \o "h" : 'Cannot modify historical stats for date'
BodyAlphabet == {"C", "f", "h"}
NOT_FOUND_PHRASE == <<"C", "f">>
GUARD_PHRASE == <<"C", "h">>

Bodies == StringsUpTo(BodyAlphabet, MaxBodyLen)

\* The call of main that is under way: 1 at pc "call1"/"wait1", 2 at "call2"/"wait2".
Step == IF pc \in {"call1", "wait1"} THEN 1 ELSE 2

\* The reply field of the request under way is set to r.
Replied(r) == [net EXCEPT ![Len(net)].reply = r]

\* call_rpc is entered and urlopen issues its request (lines 19-26).
RpcSend ==
    /\ pc \in {"call1", "call2"}
    /\ uncaught = NoException
    /\ calls' = calls + 1
    /\ net' = Append(net, [call     |-> calls + 1,
                           step     |-> Step,
                           endpoint |-> Endpoint(url),
                           method   |-> "POST",
                           timeout  |-> TIMEOUT,
                           apikey   |-> anon_key,
                           authorization |-> <<"Bearer", " ">> \o anon_key,
                           payload  |-> IF Step = 1 THEN PAYLOAD1 ELSE PAYLOAD2,
                           reply    |-> <<"pending">>])
    /\ pc' = IF Step = 1 THEN "wait1" ELSE "wait2"
    /\ UNCHANGED <<exists, text, caller, lines, idx, env, url, anon_key, result, result2, out, uncaught>>

\* call_rpc's value reaches main: status, body = ... (Step 1), status2, body2 = ... (Step 2).
Returned(st, b) ==
    /\ result' = IF Step = 1 THEN <<st, b>> ELSE result
    /\ result2' = IF Step = 2 THEN <<st, b>> ELSE result2
    /\ pc' = IF Step = 1 THEN "report1" ELSE "report2"

\* The server answers with a success status: return resp.status, body (lines 26-28).
RpcResponse ==
    /\ pc \in {"wait1", "wait2"}
    /\ uncaught = NoException
    /\ \E st \in OkStatuses, b \in Bodies :
         /\ net' = Replied(<<"response", st, b>>)
         /\ Returned(st, b)
    /\ UNCHANGED <<exists, text, caller, lines, idx, env, url, anon_key, out, calls, uncaught>>

\* An HTTPError that is retried: the request is issued again.
RpcHTTPError_Retry ==
    /\ pc \in {"wait1", "wait2"}
    /\ uncaught = NoException
    /\ Len(net) < 4
    /\ \E st \in ErrorStatuses, b \in Bodies :
         net' = Append(Replied(<<"http_error", st, b>>), [net[Len(net)] EXCEPT !.reply = <<"pending">>])
    /\ UNCHANGED <<exists, text, caller, pc, lines, idx, env, url, anon_key, result, result2, out, calls, uncaught>>

\* An HTTPError that is not caught: it leaves call_rpc and main.
RpcHTTPError_Propagates ==
    /\ pc \in {"wait1", "wait2"}
    /\ uncaught = NoException
    /\ \E st \in ErrorStatuses, b \in Bodies :
         /\ net' = Replied(<<"http_error", st, b>>)
         /\ uncaught' = "HTTPError"
    /\ UNCHANGED <<exists, text, caller, pc, lines, idx, env, url, anon_key, result, result2, out, calls>>

\* The server answers with an error status: urlopen raises HTTPError, which is
\* caught: return e.code, body (lines 29-31).
RpcHTTPError ==
    /\ pc \in {"wait1", "wait2"}
    /\ uncaught = NoException
    /\ \E st \in ErrorStatuses, b \in Bodies :
         /\ net' = Replied(<<"http_error", st, b>>)
         /\ Returned(st, b)
    /\ UNCHANGED <<exists, text, caller, lines, idx, env, url, anon_key, out, calls, uncaught>>

\* A transport failure that is swallowed into a (status, body) pair.
RpcTransportError_AsPair ==
    /\ pc \in {"wait1", "wait2"}
    /\ uncaught = NoException
    /\ \E e \in TransportErrors :
         /\ net' = Replied(<<"transport_error", e>>)
         /\ Returned(500, <<>>)
    /\ UNCHANGED <<exists, text, caller, lines, idx, env, url, anon_key, out, calls, uncaught>>

\* No HTTP exchange completes: urlopen raises URLError or a timeout, which no
\* except clause of call_rpc (line 29) or of main matches, so it leaves main.
RpcTransportError ==
    /\ pc \in {"wait1", "wait2"}
    /\ uncaught = NoException
    /\ \E e \in TransportErrors :
         /\ net' = Replied(<<"transport_error", e>>)
         /\ uncaught' = e
    /\ UNCHANGED <<exists, text, caller, pc, lines, idx, env, url, anon_key, result, result2, out, calls>>

(***************************************************************************)
(* main                                                                    *)
(***************************************************************************)
SUPABASE_URL == <<"SUPABASE_URL">>
SUPABASE_ANON_KEY == <<"SUPABASE_ANON_KEY">>

\* The lines main prints.
MSG_ENV_NOT_FOUND == "X .env not found"
MSG_KEYS_MISSING == "X SUPABASE_URL or SUPABASE_ANON_KEY missing in .env"
MSG_STEP1 == "== Step 1: Reachability / function existence check =="
MSG_NOT_DEPLOYED == "X RPC function signature not deployed as expected"
MSG_CALLABLE == "OK RPC endpoint exists and signature is callable"
MSG_STEP2 == "== Step 2: Historical-date rejection check (server-side guard) =="
MSG_GUARD_ACTIVE == "OK Historical-write guard is active at DB layer"
MSG_INCONCLUSIVE == "! Could not prove historical-write guard via anon key path"
MSG_REASON == "   Reason: anon calls may fail before business guard due to auth/RLS constraints."

\* env.get(k)
Get(m, k) == IF k \in DOMAIN m THEN m[k] ELSE None

\* Python's truth value of env.get(k), with the empty string taken as true.
Truthy_NotNone(v) == v # None

\* Python's truth value of env.get(k): None and '' are false.
Truthy(v) == v # None /\ v # <<>>

\* needle in hay, by a scan from the left.
RECURSIVE Contains(_, _)
Contains(hay, needle) ==
    IF Len(hay) < Len(needle) THEN FALSE
    ELSE IF SubSeq(hay, 1, Len(needle)) = needle THEN TRUE
    ELSE Contains(Tail(hay), needle)

\* body[:600]
Prefix(b) == SubSeq(b, 1, IF Len(b) < PrefixLen THEN Len(b) ELSE PrefixLen)

\* Step 1's verdict read from the printed part of the body only.
Verdict1_OfPrefix(st, b) ==
    IF Contains(Prefix(b), NOT_FOUND_PHRASE) THEN MSG_NOT_DEPLOYED ELSE MSG_CALLABLE

\* Step 1's verdict (lines 65-68).
Verdict1(st, b) ==
    IF Contains(b, NOT_FOUND_PHRASE) THEN MSG_NOT_DEPLOYED ELSE MSG_CALLABLE

\* Step 2's verdict (lines 88-92): the lines it prints.
Verdict2(st, b) ==
    IF Contains(b, GUARD_PHRASE) THEN <<<<MSG_GUARD_ACTIVE>>>>
    ELSE <<<<MSG_INCONCLUSIVE>>, <<MSG_REASON>>>>

\* main starts: the .env file is looked for (lines 35-40).
CheckEnv ==
    /\ pc = "main"
    /\ IF ~exists
       THEN /\ out' = Append(out, <<MSG_ENV_NOT_FOUND>>)
            /\ pc' = "Done"
       ELSE /\ out' = out
            /\ pc' = "load_env"
    /\ UNCHANGED <<exists, text, caller, lines, idx, env, url, anon_key, result, result2, calls, net, uncaught>>

\* load_env has returned: the two keys are read and checked (lines 40-48).
Configure ==
    /\ pc = "config"
    /\ url' = Get(env, SUPABASE_URL)
    /\ anon_key' = Get(env, SUPABASE_ANON_KEY)
    /\ IF ~Truthy(url') \/ ~Truthy(anon_key')
       THEN /\ out' = Append(out, <<MSG_KEYS_MISSING>>)
            /\ pc' = "Done"
       ELSE /\ out' = Append(out, <<MSG_STEP1>>)
            /\ pc' = "call1"
    /\ UNCHANGED <<exists, text, caller, lines, idx, env, result, result2, calls, net, uncaught>>

\* Report1 that ends the run after the deployment-mismatch failure.
Report1_StopsOnFailure ==
    /\ pc = "report1"
    /\ LET v == Verdict1(result[1], result[2])
       IN  /\ out' = out \o <<<<"HTTP", result[1]>>, <<"BODY", Prefix(result[2])>>, <<v>>>>
                         \o (IF v = MSG_NOT_DEPLOYED THEN <<>> ELSE <<<<MSG_STEP2>>>>)
           /\ pc' = IF v = MSG_NOT_DEPLOYED THEN "Done" ELSE "call2"
    /\ UNCHANGED <<exists, text, caller, lines, idx, env, url, anon_key, result, result2, calls, net, uncaught>>

\* Step 1 is reported and classified, and Step 2 is announced (lines 62-70).
Report1 ==
    /\ pc = "report1"
    /\ out' = out \o <<<<"HTTP", result[1]>>, <<"BODY", Prefix(result[2])>>,
                       <<Verdict1(result[1], result[2])>>, <<MSG_STEP2>>>>
    /\ pc' = "call2"
    /\ UNCHANGED <<exists, text, caller, lines, idx, env, url, anon_key, result, result2, calls, net, uncaught>>

\* Step 2 is reported and classified (lines 85-92).
Report2 ==
    /\ pc = "report2"
    /\ out' = out \o <<<<"HTTP", result2[1]>>, <<"BODY", Prefix(result2[2])>>>>
                  \o Verdict2(result2[1], result2[2])
    /\ pc' = "return"
    /\ UNCHANGED <<exists, text, caller, lines, idx, env, url, anon_key, result, result2, calls, net, uncaught>>

\* main falls off its end and the process exits.
MainReturn ==
    /\ pc = "return"
    /\ pc' = "Done"
    /\ UNCHANGED <<exists, text, caller, lines, idx, env, url, anon_key, result, result2, out, calls, net, uncaught>>

\* The generated configurations: an optional SUPABASE_URL line, then an optional
\* SUPABASE_ANON_KEY line.
UrlAlphabet == {"h", "/"}
UrlLines == {<<>>} \cup {SUPABASE_URL \o <<"=">> \o v \o <<NL>> : v \in StringsUpTo(UrlAlphabet, MaxUrlLen)}
KeyLines == {<<>>} \cup {SUPABASE_ANON_KEY \o <<"=">> \o v \o <<NL>> : v \in {<<>>, <<" ">>, <<"k">>}}
ConfigTexts == {u \o k : u \in UrlLines, k \in KeyLines}

Init ==
    /\ \/ exists = FALSE /\ text = <<>>
       \/ exists = TRUE /\ text \in ConfigTexts
    /\ caller = "main"
    /\ pc = "main"
    /\ lines = <<>>
    /\ idx = 0
    /\ env = EmptyEnv
    /\ url = None
    /\ anon_key = None
    /\ result = <<>>
    /\ result2 = <<>>
    /\ out = <<>>
    /\ calls = 0
    /\ net = <<>>
    /\ uncaught = NoException

Next ==
    \/ CheckEnv
    \/ LoadRead
    \/ LoadLine
    \/ LoadReturn
    \/ Configure
    \/ RpcSend
    \/ RpcResponse
    \/ RpcHTTPError
    \/ RpcTransportError
    \/ Report1
    \/ Report2
    \/ MainReturn

Spec == Init /\ [][Next]_vars

\* load_env called alone on a generated text.
InitLoad ==
    /\ exists = TRUE
    /\ text \in EnvTexts
    /\ caller = "direct"
    /\ pc = "load_env"
    /\ lines = <<>>
    /\ idx = 0
    /\ env = EmptyEnv
    /\ url = None
    /\ anon_key = None
    /\ result = <<>>
    /\ result2 = <<>>
    /\ out = <<>>
    /\ calls = 0
    /\ net = <<>>
    /\ uncaught = NoException

NextLoad == LoadRead \/ LoadLine \/ LoadReturn

SpecLoad == InitLoad /\ [][NextLoad]_vars

(***************************************************************************)
(* Vocabulary of the properties.                                           *)
(***************************************************************************)
\* How often main has printed the line m.
Count(m) == Cardinality({i \in 1..Len(out) : out[i][1] = m})

Printed(m) == Count(m) > 0

\* What main holds of call_rpc's value for the request of step k.
ResultOf(k) == IF k = 1 THEN result ELSE result2

Requests == 1..Len(net)

\* The run is over: main has returned, or an exception has left it.
Terminated == pc = "Done" \/ uncaught # NoException

\* ph occurs in b at some offset.
OccursIn(b, ph) ==
    \E k \in 0..(Len(b) - Len(ph)) : \A j \in 1..Len(ph) : b[k + j] = ph[j]

\* s between its first and its last character that is not white space.
Trimmed(s) ==
    LET I == {i \in 1..Len(s) : ~IsSpace(s[i])}
    IN  IF I = {} THEN <<>>
        ELSE SubSeq(s, CHOOSE i \in I : \A j \in I : i <= j,
                       CHOOSE i \in I : \A j \in I : i >= j)

HasEq(L) == \E i \in 1..Len(L) : L[i] = "="

\* The position of the first '=' of a line that holds one.
FirstEq(L) == CHOOSE n \in 1..Len(L) : L[n] = "=" /\ \A j \in 1..(n - 1) : L[j] # "="

KeyOf(L) == Trimmed(SubSeq(L, 1, FirstEq(L) - 1))
ValueOf(L) == Trimmed(SubSeq(L, FirstEq(L) + 1, Len(L)))

\* m2 is m1 with exactly the pair (k, v) put into it.
Contributes(m1, m2, k, v) ==
    /\ DOMAIN m2 = DOMAIN m1 \cup {k}
    /\ m2[k] = v
    /\ \A x \in DOMAIN m1 \ {k} : m2[x] = m1[x]

\* The for loop of load_env consumes the line lines[idx + 1] in this step.
ConsumesLine == pc = "load_loop" /\ idx < Len(lines) /\ idx' = idx + 1

\* A KEY=VALUE line as the specification words it: it holds '=', is not blank and does
\* not begin with '#'.
QualifiesAsWorded(L) == HasEq(L) /\ Trimmed(L) # <<>> /\ ~(Len(L) > 0 /\ L[1] = "#")

\* A KEY=VALUE line: it holds '=', is not blank, and its first character that
\* is not white space is not '#'.
Qualifies(L) == HasEq(L) /\ Trimmed(L) # <<>> /\ Trimmed(L)[1] # "#"

(***************************************************************************)
(* C1                                                                      *)
(***************************************************************************)
\* The .env file is missing, or the loaded mapping lacks one of the two keys or
\* holds an empty value for it.
ConfigMissing ==
    \/ ~exists
    \/ /\ pc \notin {"main", "load_env", "load_loop"}
       /\ \E k \in {SUPABASE_URL, SUPABASE_ANON_KEY} : k \notin DOMAIN env \/ env[k] = <<>>

\* C1: when the .env file does not exist, or SUPABASE_URL or SUPABASE_ANON_KEY is
\* absent from the loaded mapping or empty, no request is ever issued (call_rpc is
\* never entered), nothing is raised, the run goes nowhere but to its end, and at
\* its end exactly the matching diagnostic has been printed.
C1_NoNetworkWithoutConfig ==
    ConfigMissing =>
        /\ net = <<>>
        /\ calls = 0
        /\ uncaught = NoException
        /\ pc \in {"main", "config", "Done"}
        /\ pc = "Done" =>
             out = <<<<IF exists THEN MSG_KEYS_MISSING ELSE MSG_ENV_NOT_FOUND>>>>

\* Scenario B and the trimmed-empty value: the run has ended on the missing-key
\* diagnostic, with a usable URL and an access key that is absent or blank.
C1_Witness ==
    /\ pc = "Done"
    /\ exists
    /\ SUPABASE_URL \in DOMAIN env
    /\ env[SUPABASE_URL] # <<>>
    /\ SUPABASE_ANON_KEY \in DOMAIN env
    /\ env[SUPABASE_ANON_KEY] = <<>>
    /\ OccursIn(text, <<"=", " ", NL>>)
    /\ Printed(MSG_KEYS_MISSING)
    /\ net = <<>>

(***************************************************************************)
(* C2                                                                      *)
(***************************************************************************)
\* The server answered request i with an HTTP status.
Answered(i) == net[i].reply[1] \in {"response", "http_error"}

\* C2: whenever the server answers a request, whatever the status, main holds
\* the pair (status, body) of that answer as the value of that call, and the
\* call has raised nothing.
C2_HttpStatusIsAResult ==
    \A i \in Requests :
        Answered(i) =>
            /\ ResultOf(net[i].step) = <<net[i].reply[2], net[i].reply[3]>>
            /\ i = Len(net) => uncaught = NoException

\* Both calls were answered with error statuses, a 4xx and a 5xx.
C2_Witness ==
    /\ Len(net) = 2
    /\ net[1].reply[1] = "http_error" /\ net[1].reply[2] = 400
    /\ net[2].reply[1] = "http_error" /\ net[2].reply[2] = 500
    /\ result = <<400, net[1].reply[3]>>
    /\ result2 = <<500, net[2].reply[3]>>

(***************************************************************************)
(* C3                                                                      *)
(***************************************************************************)
\* C3: in every branch of a run nothing is thrown upward past main, and a run
\* that has stopped has stopped in Done.
C3_ExitsNormally ==
    /\ uncaught = NoException
    /\ ~ENABLED Next => pc = "Done"

(***************************************************************************)
(* C4                                                                      *)
(***************************************************************************)
\* The driver's states: 0 NotStarted, 1 ReachabilityChecked,
\* 2 HistoricalGuardChecked, 3 Done.
Rank(p) ==
    CASE p \in {"call2", "wait2", "report2"} -> 1
      [] p = "return" -> 2
      [] p = "Done" -> 3
      [] OTHER -> 0

Step2Issued == \E i \in Requests : net[i].step = 2

Step1Classified == Count(MSG_NOT_DEPLOYED) + Count(MSG_CALLABLE) = 1

\* C4: the driver never moves back along NotStarted, ReachabilityChecked,
\* HistoricalGuardChecked, Done; the Step 2 request is issued only once Step 1's
\* answer has been received and classified; and a run that has ended after
\* Step 1 returned an answer has issued the Step 2 request, whatever Step 1's
\* verdict was.
C4_ForwardOnly ==
    /\ [][Rank(pc') >= Rank(pc)]_vars
    /\ [](Step2Issued => Answered(1) /\ result # <<>> /\ Step1Classified)
    /\ []((Terminated /\ result # <<>>) => Step2Issued)

\* Scenario D: the deployment-mismatch failure was printed and the run went on
\* to issue Step 2 and to end.
C4_Witness ==
    /\ pc = "Done"
    /\ Printed(MSG_NOT_DEPLOYED)
    /\ Step2Issued

(***************************************************************************)
(* C5                                                                      *)
(***************************************************************************)
\* C5: every invocation of call_rpc that has been entered has issued exactly one
\* request, whatever the reply was; a run issues at most two requests, and no
\* two of them are for the same step.
C5_OneRequestPerCall ==
    /\ \A c \in 1..calls : Cardinality({i \in Requests : net[i].call = c}) = 1
    /\ Len(net) <= 2
    /\ \A i, j \in Requests : i # j => net[i].step # net[j].step

\* An error status at Step 1 and a transport failure at Step 2, each after one
\* request.
C5_Witness ==
    /\ calls = 2
    /\ Len(net) = 2
    /\ net[1].reply[1] = "http_error"
    /\ net[2].reply[1] = "transport_error"

(***************************************************************************)
(* C6                                                                      *)
(***************************************************************************)
\* C6: a request that met a transport failure yields no (status, body) pair:
\* main's result for that step stays unassigned, the failure leaves as the
\* exception it is, and main reports nothing for that step.
C6_TransportFailureIsNoPair ==
    \A i \in Requests :
        net[i].reply[1] = "transport_error" =>
            /\ ResultOf(net[i].step) = <<>>
            /\ uncaught = net[i].reply[2]
            /\ pc = (IF net[i].step = 1 THEN "wait1" ELSE "wait2")

\* Step 1 was answered with an error status and Step 2 timed out.
C6_Witness ==
    /\ Len(net) = 2
    /\ net[1].reply[1] = "http_error"
    /\ net[2].reply = <<"transport_error", "timeout: timed out">>
    /\ result # <<>>
    /\ result2 = <<>>

(***************************************************************************)
(* C7                                                                      *)
(***************************************************************************)
\* C7 as worded: a consumed line that holds '=', is not blank and does not begin
\* with '#' contributes exactly (key trimmed, value trimmed), split at its first
\* '='; any other line leaves the mapping as it was.
C7_AsWorded ==
    [][ConsumesLine =>
         LET L == lines[idx + 1]
         IN  IF QualifiesAsWorded(L)
             THEN Contributes(env, env', KeyOf(L), ValueOf(L))
             ELSE env' = env]_vars

\* C7: a consumed line that holds '=', is not blank and whose first character
\* that is not white space is not '#' contributes exactly (key trimmed, value
\* trimmed), split at its first '=' with later '=' kept in the value; any other
\* line leaves the mapping as it was.
C7_LineContribution ==
    [][ConsumesLine =>
         LET L == lines[idx + 1]
         IN  IF Qualifies(L)
             THEN Contributes(env, env', KeyOf(L), ValueOf(L))
             ELSE env' = env]_vars

\* A padded line with a second '=' has been consumed and its pair is in the
\* mapping, the second '=' in the value.
C7_Witness ==
    /\ pc = "load_loop"
    /\ idx > 0
    /\ LET L == lines[idx]
       IN  /\ L = <<" ", "a", " ", "=", "a", "=">>
           /\ <<"a">> \in DOMAIN env
           /\ env[<<"a">>] = <<"a", "=">>

(***************************************************************************)
(* C8                                                                      *)
(***************************************************************************)
\* The KEY=VALUE lines among the lines consumed so far.
Consumed == {i \in 1..idx : Qualifies(lines[i])}

\* C8: after any number of lines, the mapping has as many entries as the
\* KEY=VALUE lines consumed have distinct keys, and holds for each key the value
\* of the last line that has it.
C8_SizeAndLastWins ==
    pc \in {"load_loop", "returned"} =>
        /\ Cardinality(DOMAIN env) = Cardinality({KeyOf(lines[i]) : i \in Consumed})
        /\ \A i \in Consumed :
             (\A j \in Consumed : j > i => KeyOf(lines[j]) # KeyOf(lines[i]))
                 => env[KeyOf(lines[i])] = ValueOf(lines[i])

\* load_env has returned from a file whose two lines give one key two values.
C8_Witness ==
    /\ pc = "returned"
    /\ lines = <<<<"a", "=", "a">>, <<"a", "=">>>>
    /\ Cardinality(DOMAIN env) = 1
    /\ env[<<"a">>] = <<>>

(***************************************************************************)
(* C9                                                                      *)
(***************************************************************************)
\* u without the slashes it ends in.
WithoutTrailingSlashes(u) ==
    LET n == CHOOSE k \in 0..Len(u) :
                 /\ k = 0 \/ u[k] # "/"
                 /\ \A j \in (k + 1)..Len(u) : u[j] = "/"
    IN  SubSeq(u, 1, n)

\* C9: for the base URL u of the configuration, u and u followed by a slash
\* give the same endpoint, which is u without trailing slash followed by the
\* fixed path; normalizing twice is normalizing once; and every request issued
\* goes to that endpoint.
C9_EndpointNormalized ==
    url # None =>
        /\ Endpoint(url) = Endpoint(url \o <<"/">>)
        /\ Endpoint(url) = WithoutTrailingSlashes(url) \o RPC_PATH
        /\ rstrip_slash(rstrip_slash(url)) = rstrip_slash(url)
        /\ rstrip_slash(url) = <<>> \/ rstrip_slash(url)[Len(rstrip_slash(url))] # "/"
        /\ \A i \in Requests : net[i].endpoint = WithoutTrailingSlashes(url) \o RPC_PATH

\* A base URL that ends in a slash was used for a request.
C9_Witness ==
    /\ url = <<"h", "/">>
    /\ Len(net) > 0
    /\ net[1].endpoint = <<"h">> \o RPC_PATH

(***************************************************************************)
(* C10                                                                     *)
(***************************************************************************)
FailureLines == {MSG_ENV_NOT_FOUND, MSG_KEYS_MISSING, MSG_NOT_DEPLOYED}

\* C10: before Step 1 is reported no verdict of it is printed; once it is,
\* exactly one is, the failure exactly when the full body holds the
\* function-not-found phrase.  The same for Step 2 with the guard phrase, its
\* verdicts being the success and the warning with its caveat; nothing printed
\* after Step 2's heading is a failure line.
C10_VerdictByBody ==
    /\ Count(MSG_NOT_DEPLOYED) + Count(MSG_CALLABLE)
         = (IF result # <<>> /\ pc # "report1" THEN 1 ELSE 0)
    /\ Printed(MSG_NOT_DEPLOYED) => OccursIn(result[2], NOT_FOUND_PHRASE)
    /\ Printed(MSG_CALLABLE) => ~OccursIn(result[2], NOT_FOUND_PHRASE)
    /\ Count(MSG_GUARD_ACTIVE) + Count(MSG_INCONCLUSIVE)
         = (IF result2 # <<>> /\ pc # "report2" THEN 1 ELSE 0)
    /\ Printed(MSG_GUARD_ACTIVE) => OccursIn(result2[2], GUARD_PHRASE)
    /\ Printed(MSG_INCONCLUSIVE) => ~OccursIn(result2[2], GUARD_PHRASE)
    /\ Count(MSG_REASON) = Count(MSG_INCONCLUSIVE)
    /\ \A i, j \in 1..Len(out) :
         (out[i][1] = MSG_STEP2 /\ j > i) => out[j][1] \notin FailureLines

\* Step 1 got status 200 with the function-not-found phrase outside the printed
\* part of the body and was failed; Step 2 got status 500 without the guard
\* phrase and was called inconclusive.
C10_Witness ==
    /\ pc = "Done"
    /\ result # <<>>
    /\ result2 # <<>>
    /\ result[1] = 200
    /\ OccursIn(result[2], NOT_FOUND_PHRASE)
    /\ ~OccursIn(Prefix(result[2]), NOT_FOUND_PHRASE)
    /\ Printed(MSG_NOT_DEPLOYED)
    /\ result2[1] = 500
    /\ ~OccursIn(result2[2], GUARD_PHRASE)
    /\ Printed(MSG_INCONCLUSIVE)
====
